---- MODULE Spec2Model ----
(***************************************************************************)
(* Model of frontend/scripts/generate-icon.py: the icon generator's        *)
(* driver main(), its per-size rasterization fallback chain                *)
(* (rsvg-convert, qlmanage, ImageMagick convert), the standalone copy of   *)
(* the 1024 bitmap and the final iconutil assembly.                        *)
(*                                                                         *)
(* The file system is a function from path strings to file contents.  The  *)
(* external tools are the environment: every invocation ends in one of the *)
(* outcomes the source itself distinguishes, exit status 0 ("ok"), a       *)
(* non-zero exit (subprocess.CalledProcessError, raised by check=True) or  *)
(* a missing executable (FileNotFoundError).  A tool that fails writes     *)
(* nothing.  qlmanage may exit 0 without leaving its thumbnail: the source *)
(* tests for exactly that (ql_output.exists()).                            *)
(***************************************************************************)
EXTENDS Integers, Sequences, FiniteSets, TLC

VARIABLES
    pc,        \* position of main(): the next step it executes
    i,         \* index into SIZES of the entry of the current loop iteration
    fs,        \* the file system under BUILD_DIR: path -> content
    calls,     \* the subprocess.run invocations so far, in order
    log,       \* the lines printed so far (the per-run header is left out)
    written,   \* paths of bitmaps and containers created or replaced in this run
    faulty,    \* number of entries whose first tool failed
    assembled, \* number of invocations of iconutil
    fsPre      \* the file system when iconutil was invoked

vars == <<pc, i, fs, calls, log, written, faulty, assembled, fsPre>>

(***************************************************************************)
(* Bounds                                                                  *)
(***************************************************************************)
\* At most this many Size Entries see their first tool fail in one run.
MaxFaultyEntries == 2

(***************************************************************************)
(* Constants of the script                                                 *)
(***************************************************************************)
BUILD_DIR == "build"

ICONSET_DIR == BUILD_DIR \o "/" \o "icon.iconset"

SIZES == << <<16, 1>>, <<16, 2>>,
            <<32, 1>>, <<32, 2>>,
            <<64, 1>>, <<64, 2>>,
            <<128, 1>>, <<128, 2>>,
            <<256, 1>>, <<256, 2>>,
            <<512, 1>>, <<512, 2>>,
            <<1024, 1>> >>

NumEntries == Len(SIZES)

(***************************************************************************)
(* Names computed at the head of the loop body                             *)
(***************************************************************************)
base_size(k) == SIZES[k][1]

scale(k) == SIZES[k][2]

actual_size(b, s) == b * s

suffix(s) == IF s > 1 THEN "@" \o ToString(s) \o "x" ELSE ""

\* Variant: the scale suffix is dropped from the name.
filename_NoSuffix(b, s) == "icon_" \o ToString(b) \o "x" \o ToString(b) \o ".png"

filename(b, s) == "icon_" \o ToString(b) \o "x" \o ToString(b) \o suffix(s) \o ".png"

filepath(b, s) == ICONSET_DIR \o "/" \o filename(b, s)

svg_path(size) == ICONSET_DIR \o "/" \o "temp_" \o ToString(size) \o ".svg"

ql_output(size) == ICONSET_DIR \o "/" \o "temp_" \o ToString(size) \o ".svg.png"

icon_1024 == ICONSET_DIR \o "/" \o "icon_1024x1024.png"

standalone_1024 == BUILD_DIR \o "/" \o "icon_1024.png"

icon_icns == BUILD_DIR \o "/" \o "icon.icns"

\* The names of each entry, tabulated once.
EntryNames ==
    [k \in 1..NumEntries |->
        [size |-> actual_size(base_size(k), scale(k)),
         path |-> filepath(base_size(k), scale(k)),
         svg |-> svg_path(actual_size(base_size(k), scale(k))),
         thumb |-> ql_output(actual_size(base_size(k), scale(k)))]]

EntrySize(k) == EntryNames[k].size

EntryPath(k) == EntryNames[k].path

EntrySvg(k) == EntryNames[k].svg

EntryThumb(k) == EntryNames[k].thumb

(***************************************************************************)
(* File contents                                                           *)
(***************************************************************************)
Absent == [kind |-> "none", size |-> 0]

\* The descriptor declares width, height and viewBox "0 0 size size".
generate_svg(size) == [kind |-> "svg", size |-> size]

\* What a rasterization tool leaves when asked for a size x size bitmap.
Bitmap(size) == [kind |-> "png", size |-> size]

Container == [kind |-> "icns", size |-> 0]

AllPaths ==
    {EntryPath(k) : k \in 1..NumEntries}
        \cup {EntrySvg(k) : k \in 1..NumEntries}
        \cup {EntryThumb(k) : k \in 1..NumEntries}
        \cup {icon_1024, standalone_1024, icon_icns}

Exists(f, p) == f[p] # Absent

\* BUILD_DIR before the run: mkdir(parents=True, exist_ok=True) accepts both a
\* fresh tree and the tree an earlier, complete run left behind.
FreshTree == [p \in AllPaths |-> Absent]

EarlierRunTree ==
    [p \in AllPaths |->
        IF \E k \in 1..NumEntries : p = EntryPath(k)
        THEN Bitmap(EntrySize(CHOOSE k \in 1..NumEntries : p = EntryPath(k)))
        ELSE IF p = standalone_1024 THEN Bitmap(1024)
        ELSE IF p = icon_icns THEN Container
        ELSE Absent]

(***************************************************************************)
(* Outcomes of an external tool                                            *)
(***************************************************************************)
Outcomes == {"ok", "CalledProcessError", "FileNotFoundError"}

\* except (subprocess.CalledProcessError, FileNotFoundError) around rsvg-convert
CaughtRsvg == {"CalledProcessError", "FileNotFoundError"}

\* except subprocess.CalledProcessError around iconutil
CaughtIconutil == {"CalledProcessError"}

\* One subprocess.run: the entry it serves (0 for iconutil), the size, source
\* and destination arguments, what the source path held, and whether it
\* returned without raising.
Call(k, tool, size, src, dst, out) ==
    [idx |-> k, tool |-> tool, size |-> size, src |-> src, dst |-> dst,
     input |-> IF src \in AllPaths THEN fs[src] ELSE Absent,
     ok |-> (out = "ok")]

Line(msg, k) == [msg |-> msg, idx |-> k]

(***************************************************************************)
(* Control flow of the loop                                                *)
(***************************************************************************)
\* Variant: the loop steps over every other entry.
NextIndex_Skip(k) == k + 2

\* The index the for statement hands out after entry k.
NextIndex(k) == k + 1

\* The for statement: the next entry, or the code after the loop.
LoopHead(k) == IF k > NumEntries THEN "copy" ELSE "entry"

\* Variant: the second tool runs whether or not the first succeeded.
AfterRsvg_NoStop(out) == "qlmanage"

\* After rsvg-convert: fall out of the try on success, else the handler.
AfterRsvg(out) ==
    IF out = "ok" THEN "cleanup"
    ELSE IF out \in CaughtRsvg THEN "qlmanage"
    ELSE "crashed"

\* After qlmanage (and the rename): on any exception the last fallback.
AfterQlmanage(out) == IF out = "ok" THEN "cleanup" ELSE "convert"

\* Variant: a failure of the last tool ends the run.
AfterConvert_Fatal(out, k) == IF out = "ok" THEN "cleanup" ELSE "done"

\* Variant: no `continue` after the failure line.
AfterConvert_FallThrough(out, k) == "cleanup"

\* After convert: on any exception `continue`, which skips lines 149-152.
AfterConvert(out, k) == IF out = "ok" THEN "cleanup" ELSE LoopHead(NextIndex(k))

\* Variant: the copy is not guarded.
CopyGuard_Always(f) == TRUE

\* if icon_1024.exists():
CopyGuard(f) == Exists(f, icon_1024)

\* After iconutil: only CalledProcessError is handled.
AfterIconutil(out) ==
    IF out = "ok" \/ out \in CaughtIconutil THEN "finish" ELSE "crashed"

(***************************************************************************)
(* Initial state: main() entered, the iconset directory ensured            *)
(***************************************************************************)
Init ==
    /\ pc = "entry"
    /\ i = 1
    /\ fs \in {FreshTree, EarlierRunTree}
    /\ calls = << >>
    /\ log = << >>
    /\ written = {}
    /\ faulty = 0
    /\ assembled = 0
    /\ fsPre = fs

(***************************************************************************)
(* Lines 105-116: names of the entry, descriptor written to svg_path       *)
(***************************************************************************)
BeginEntry ==
    /\ pc = "entry"
    /\ i <= NumEntries
    /\ fs' = [fs EXCEPT ![EntrySvg(i)] = generate_svg(EntrySize(i))]
    /\ pc' = "rsvg"
    /\ UNCHANGED <<i, calls, log, written, faulty, assembled, fsPre>>

(***************************************************************************)
(* Lines 120-125: rsvg-convert -w size -h size -o filepath svg_path        *)
(***************************************************************************)
RunRsvgConvert ==
    /\ pc = "rsvg"
    /\ \E out \in Outcomes :
        /\ out # "ok" => faulty < MaxFaultyEntries
        /\ calls' = Append(calls,
                Call(i, "rsvg-convert", EntrySize(i), EntrySvg(i), EntryPath(i), out))
        /\ IF out = "ok"
           THEN /\ fs' = [fs EXCEPT ![EntryPath(i)] = Bitmap(EntrySize(i))]
                /\ written' = written \cup {EntryPath(i)}
                /\ faulty' = faulty
           ELSE /\ faulty' = faulty + 1
                /\ UNCHANGED <<fs, written>>
        /\ pc' = AfterRsvg(out)
    /\ UNCHANGED <<i, log, assembled, fsPre>>

(***************************************************************************)
(* Lines 127-137: qlmanage -t -s size -o ICONSET_DIR svg_path, the rename  *)
(* of its output when that exists, the warning when it raised              *)
(***************************************************************************)
RunQlmanage ==
    /\ pc = "qlmanage"
    /\ \E out \in Outcomes, thumb \in BOOLEAN :
        /\ out # "ok" => ~thumb
        /\ calls' = Append(calls,
                Call(i, "qlmanage", EntrySize(i), EntrySvg(i), ICONSET_DIR, out))
        /\ IF out = "ok" /\ thumb
           THEN \* qlmanage wrote ql_output; ql_output.rename(filepath)
                /\ fs' = [fs EXCEPT ![EntryPath(i)] = Bitmap(EntrySize(i)),
                                    ![EntryThumb(i)] = Absent]
                /\ written' = written \cup {EntryPath(i)}
           ELSE UNCHANGED <<fs, written>>
        /\ log' = IF out = "ok" THEN log ELSE Append(log, Line("warn", i))
        /\ pc' = AfterQlmanage(out)
    /\ UNCHANGED <<i, faulty, assembled, fsPre>>

(***************************************************************************)
(* Lines 139-147: convert ... svg_path -resize SxS filepath; on any        *)
(* exception the failure line and `continue`                               *)
(***************************************************************************)
RunConvert ==
    /\ pc = "convert"
    /\ \E out \in Outcomes :
        /\ calls' = Append(calls,
                Call(i, "convert", EntrySize(i), EntrySvg(i), EntryPath(i), out))
        /\ IF out = "ok"
           THEN /\ fs' = [fs EXCEPT ![EntryPath(i)] = Bitmap(EntrySize(i))]
                /\ written' = written \cup {EntryPath(i)}
                /\ log' = log
           ELSE /\ log' = Append(log, Line("fail", i))
                /\ UNCHANGED <<fs, written>>
        /\ pc' = AfterConvert(out, i)
        \* the loop variable advances only when control returns to the for
        /\ i' = IF pc' = "cleanup" THEN i ELSE NextIndex(i)
    /\ UNCHANGED <<faulty, assembled, fsPre>>

(***************************************************************************)
(* Lines 149-152: svg_path.unlink(missing_ok=True) and the success line    *)
(***************************************************************************)
CleanupAndReport ==
    /\ pc = "cleanup"
    /\ fs' = [fs EXCEPT ![EntrySvg(i)] = Absent]
    /\ log' = Append(log, Line("ok", i))
    /\ i' = NextIndex(i)
    /\ pc' = LoopHead(NextIndex(i))
    /\ UNCHANGED <<calls, written, faulty, assembled, fsPre>>

(***************************************************************************)
(* Lines 154-159: shutil.copy of the 1024 bitmap when it exists            *)
(***************************************************************************)
CopyStandalone ==
    /\ pc = "copy"
    /\ IF CopyGuard(fs)
       THEN /\ fs' = [fs EXCEPT ![standalone_1024] = fs[icon_1024]]
            /\ written' = written \cup {standalone_1024}
            /\ log' = Append(log, Line("ok1024", 0))
       ELSE UNCHANGED <<fs, written, log>>
    /\ pc' = "iconutil"
    /\ UNCHANGED <<i, calls, faulty, assembled, fsPre>>

(***************************************************************************)
(* Lines 161-170: iconutil -c icns ICONSET_DIR -o BUILD_DIR/icon.icns      *)
(***************************************************************************)
RunIconutil ==
    /\ pc = "iconutil"
    /\ \E out \in Outcomes :
        /\ assembled' = assembled + 1
        /\ calls' = Append(calls, Call(0, "iconutil", 0, ICONSET_DIR, icon_icns, out))
        /\ fsPre' = fs
        /\ IF out = "ok"
           THEN /\ fs' = [fs EXCEPT ![icon_icns] = Container]
                /\ written' = written \cup {icon_icns}
                /\ log' = Append(log, Line("icns_ok", 0))
           ELSE /\ log' = IF out \in CaughtIconutil
                          THEN Append(log, Line("icns_fail", 0))
                          ELSE log
                /\ UNCHANGED <<fs, written>>
        /\ pc' = AfterIconutil(out)
    /\ UNCHANGED <<i, faulty>>

(***************************************************************************)
(* Lines 172-174: the closing lines; main() returns                        *)
(***************************************************************************)
Finish ==
    /\ pc = "finish"
    /\ log' = Append(log, Line("complete", 0))
    /\ pc' = "done"
    /\ UNCHANGED <<i, fs, calls, written, faulty, assembled, fsPre>>

main ==
    \/ BeginEntry
    \/ RunRsvgConvert
    \/ RunQlmanage
    \/ RunConvert
    \/ CleanupAndReport
    \/ CopyStandalone
    \/ RunIconutil
    \/ Finish

Next == main

Spec == Init /\ [][Next]_vars

TypeOK ==
    /\ pc \in {"entry", "rsvg", "qlmanage", "convert", "cleanup", "copy",
               "iconutil", "finish", "done", "crashed"}
    /\ i \in 1..(NumEntries + 1)
    /\ \A p \in AllPaths : fs[p].kind \in {"none", "svg", "png", "icns"}
    /\ faulty \in 0..MaxFaultyEntries
    /\ assembled \in 0..1
    /\ written \subseteq AllPaths

(***************************************************************************)
(* Vocabulary of the properties                                            *)
(***************************************************************************)
Entries == 1..NumEntries

\* The invocations made for entry k, in order.
CallsOf(k) == SelectSeq(calls, LAMBDA c : c.idx = k)

\* The final reports printed for entry k, in order.
VerdictsOf(k) == SelectSeq(log, LAMBDA l : l.idx = k /\ l.msg \in {"ok", "fail"})

\* The entries for which the given tool was run and raised.
FailedWith(tool) ==
    {calls[j].idx : j \in {m \in 1..Len(calls) : calls[m].tool = tool /\ ~calls[m].ok}}

\* The entries for which every one of the three tools was run and raised.
AllFailedEntries ==
    FailedWith("rsvg-convert") \cap FailedWith("qlmanage") \cap FailedWith("convert")

\* The entries for which some tool returned without raising.
SucceededEntries ==
    {calls[j].idx : j \in {m \in 1..Len(calls) : calls[m].ok}} \cap Entries

AllFailed(k) == k \in AllFailedEntries

\* The final reports printed so far, in order.
Verdicts == SelectSeq(log, LAMBDA l : l.msg \in {"ok", "fail"})

\* The driver has left entry k behind.
MovedOn(k) == k < i

AfterLoop == pc \in {"copy", "iconutil", "finish", "done", "crashed"}

AfterCopy == pc \in {"iconutil", "finish", "done", "crashed"}

Ended == pc \in {"done", "crashed"}

IconutilCalls == SelectSeq(calls, LAMBDA c : c.tool = "iconutil")

\* The declared list, written out independently of SIZES: bases 16..1024
\* doubling, each at scale 1 then 2, the last at scale 1 only.
DeclaredBase(k) == 16 * 2 ^ ((k - 1) \div 2)

DeclaredScale(k) == 1 + ((k - 1) % 2)

\* The bitmap names the naming convention prescribes, entry by entry.
ExpectedName ==
    << "icon_16x16.png", "icon_16x16@2x.png",
       "icon_32x32.png", "icon_32x32@2x.png",
       "icon_64x64.png", "icon_64x64@2x.png",
       "icon_128x128.png", "icon_128x128@2x.png",
       "icon_256x256.png", "icon_256x256@2x.png",
       "icon_512x512.png", "icon_512x512@2x.png",
       "icon_1024x1024.png" >>

ExpectedPaths == [k \in Entries |-> "build/icon.iconset/" \o ExpectedName[k]]

ExpectedPath(k) == ExpectedPaths[k]

DeclaredSize == [k \in Entries |-> DeclaredBase(k) * DeclaredScale(k)]

\* What entry k's descriptor and bitmap must be.
DeclaredSvg == [k \in Entries |-> [kind |-> "svg", size |-> DeclaredSize[k]]]

DeclaredPng == [k \in Entries |-> [kind |-> "png", size |-> DeclaredSize[k]]]

\* The naming rule applied to the declared list gives the prescribed names,
\* and no two entries of SIZES get the same path.
NamesAsPrescribed ==
    /\ \A k \in Entries : filename(DeclaredBase(k), DeclaredScale(k)) = ExpectedName[k]
    /\ \A k, m \in Entries : k # m => EntryPath(k) # EntryPath(m)

RunOutputs == {ExpectedPaths[k] : k \in Entries} \cup {standalone_1024, icon_icns}

\* C1: at the loop head after an entry (and after the last one), the
\* temporary descriptor temp_<actual_size>.svg written for the entry just
\* left is no longer on disk, whatever the three tools did.
C1_Cleanup ==
    (pc \in {"entry", "copy"} /\ i > 1) => ~Exists(fs, EntrySvg(i - 1))

\* C2: rsvg-convert is the first call made for an entry; qlmanage is called
\* only directly after a failed rsvg-convert of the same entry, convert only
\* directly after a failed qlmanage of the same entry.  So the calls of an
\* entry are a prefix of the three tools in order and nothing follows a
\* success.
C2_FallbackOrder ==
    \A j \in 1..Len(calls) :
        LET c == calls[j] IN
        /\ c.tool = "rsvg-convert" => (j = 1 \/ calls[j - 1].idx < c.idx)
        /\ c.tool = "qlmanage" =>
              /\ j > 1
              /\ calls[j - 1].idx = c.idx
              /\ calls[j - 1].tool = "rsvg-convert"
              /\ ~calls[j - 1].ok
        /\ c.tool = "convert" =>
              /\ j > 2
              /\ calls[j - 1].idx = c.idx
              /\ calls[j - 1].tool = "qlmanage"
              /\ ~calls[j - 1].ok
              /\ calls[j - 2].idx = c.idx
              /\ ~calls[j - 2].ok

C2_Witness ==
    /\ \E k \in Entries : MovedOn(k) /\ Len(CallsOf(k)) = 1 /\ CallsOf(k)[1].ok
    /\ \E k \in Entries : MovedOn(k) /\ Len(CallsOf(k)) = 2 /\ CallsOf(k)[2].ok
    /\ \E k \in Entries : MovedOn(k) /\ Len(CallsOf(k)) = 3

\* C3: when all three tools failed for an entry, a failure line is printed
\* for it, no bitmap is written to its path, no exception leaves main(),
\* and once the run has ended it has ended normally with every later entry
\* processed.
C3_NotFatal ==
    \A k \in Entries :
        AllFailed(k) =>
            /\ VerdictsOf(k) = <<Line("fail", k)>>
            /\ EntryPath(k) \notin written
            /\ pc # "crashed"
            /\ Ended => /\ pc = "done"
                        /\ \A m \in (k + 1)..NumEntries :
                              Len(CallsOf(m)) >= 1 /\ Len(VerdictsOf(m)) = 1

\* C4: when iconutil did not run to a zero exit, the failure is printed,
\* main() returns normally, the container is not written, and the per-size
\* bitmaps and icon_1024.png are as they were when iconutil was invoked.
C4_AssemblyFailure ==
    (Len(IconutilCalls) = 1 /\ ~IconutilCalls[1].ok) =>
        /\ pc # "crashed"
        /\ \E j \in 1..Len(log) : log[j].msg = "icns_fail"
        /\ icon_icns \notin written
        /\ \A p \in AllPaths \ {icon_icns} : fs[p] = fsPre[p]
        /\ pc = "done" => log[Len(log)].msg = "complete"

\* C5: iconutil is invoked at most once, never before all 13 entries have
\* their verdict and the copy step is behind; no run stops or fails before
\* invoking it, and a run that has ended invoked it exactly once, with or
\* without a bitmap for every entry.
C5_AssemblyOnce ==
    /\ assembled = Len(IconutilCalls)
    /\ assembled <= 1
    /\ assembled = 1 =>
          /\ pc \in {"finish", "done", "crashed"}
          /\ Len(Verdicts) = 13
          /\ \A j \in 1..13 : Verdicts[j].idx = j
          /\ calls[Len(calls)].tool = "iconutil"
    /\ pc \in {"finish", "done", "crashed"} => assembled = 1
    /\ assembled = 0 => ENABLED Next

C5_Witness ==
    /\ pc = "done"
    /\ assembled = 1
    /\ \E k \in Entries : ~Exists(fsPre, EntryPath(k))

\* C6: once the copy step is behind, icon_1024.png has been written in this
\* run exactly if icon_1024x1024.png exists in the iconset, and then as a
\* copy of it; when it is absent nothing is printed for the step, and in
\* both cases the run goes on to iconutil.
C6_StandaloneCopy ==
    /\ ~AfterCopy => standalone_1024 \notin written
    /\ AfterCopy =>
          /\ standalone_1024 \in written <=> Exists(fs, icon_1024)
          /\ Exists(fs, icon_1024) => fs[standalone_1024] = fs[icon_1024]
          /\ ~Exists(fs, icon_1024) =>
                \A j \in 1..Len(log) :
                    log[j].idx = 0 => log[j].msg \in {"icns_ok", "icns_fail", "complete"}
          /\ pc # "iconutil" => assembled = 1

C6_Witness ==
    /\ pc = "done"
    /\ ~Exists(fs, icon_1024)
    /\ standalone_1024 \notin written
    /\ \E k \in Entries : Exists(fs, EntryPath(k))

\* C7: the j-th entry the driver starts on is the j-th entry of the declared
\* list, all 13 have been started once the loop is left, the verdicts come
\* in that same order, and no tool is run twice for one entry.
C7_FixedOrder ==
    LET first == SelectSeq(calls, LAMBDA c : c.tool = "rsvg-convert")
        v == Verdicts
    IN  /\ Len(first) <= 13
        /\ \A j \in 1..Len(first) :
              /\ first[j].dst = ExpectedPath(j)
              /\ first[j].size = DeclaredSize[j]
        /\ AfterLoop => Len(first) = 13
        /\ \A j \in 1..Len(v) : v[j].idx = j
        /\ Len(v) \in {Len(first) - 1, Len(first)}
        /\ Cardinality({<<calls[j].idx, calls[j].tool>> : j \in 1..Len(calls)}) = Len(calls)

C7_Witness ==
    /\ pc = "done"
    /\ \E k \in Entries : AllFailed(k)
    /\ \E k \in Entries : Len(CallsOf(k)) = 1

\* C8: every rasterization call for entry (base, scale) asks for base * scale
\* pixels and reads a descriptor declared at base * scale; rsvg-convert and
\* convert are pointed at icon_<base>x<base>[@<scale>x].png, which is where
\* the bitmap of the entry lands whichever tool produced it; the 13 paths
\* are pairwise distinct and the bitmaps of the run sit only at them.
C8_EntryMapping ==
    /\ \A j \in 1..Len(calls) :
          LET c == calls[j] IN
          c.idx \in Entries =>
              /\ c.size = DeclaredSize[c.idx]
              /\ c.input = DeclaredSvg[c.idx]
              /\ c.tool # "qlmanage" => c.dst = ExpectedPath(c.idx)
              /\ (c.ok /\ c.tool # "qlmanage") =>
                    /\ ExpectedPath(c.idx) \in written
                    /\ fs[ExpectedPath(c.idx)] = DeclaredPng[c.idx]
    /\ \A k \in Entries :
          ExpectedPath(k) \in written => fs[ExpectedPath(k)] = DeclaredPng[k]
    /\ NamesAsPrescribed
    /\ written \subseteq RunOutputs

C8_Witness ==
    /\ \E j \in 1..Len(calls) :
          /\ calls[j].idx = 12
          /\ calls[j].size = 1024
          /\ calls[j].dst = "build/icon.iconset/icon_512x512@2x.png"
          /\ calls[j].ok
    /\ {"build/icon.iconset/icon_16x16@2x.png", "build/icon.iconset/icon_32x32.png"}
          \subseteq written
    /\ fs["build/icon.iconset/icon_16x16@2x.png"] = [kind |-> "png", size |-> 32]
    /\ fs["build/icon.iconset/icon_32x32.png"] = [kind |-> "png", size |-> 32]

\* C9: every success line printed for an entry is backed by a bitmap at the
\* entry's path icon_<base>x<base>[@<scale>x].png, whichever tool succeeded.
C9_SuccessMeansBitmap ==
    \A j \in 1..Len(log) :
        log[j].msg = "ok" => Exists(fs, ExpectedPath(log[j].idx))

\* C10: the entries the driver has left behind are exactly those with a
\* verdict line, and each has exactly one; the verdict is the failure line
\* exactly if all three tools failed for the entry, the success line exactly
\* if one of them succeeded.
C10_OneVerdict ==
    LET failed == AllFailedEntries
        succeeded == SucceededEntries
        v == Verdicts
    IN  /\ Len(v) = i - 1
        /\ \A j \in 1..Len(v) :
              /\ v[j].idx = j
              /\ v[j].msg = "fail" <=> j \in failed
              /\ v[j].msg = "ok" <=> j \in succeeded

C10_Witness ==
    /\ AfterLoop
    /\ \E k \in Entries : VerdictsOf(k) = <<Line("fail", k)>>
    /\ \E k \in Entries :
          /\ VerdictsOf(k) = <<Line("ok", k)>>
          /\ Len(CallsOf(k)) = 3
====
